---- MODULE Spec2Model ----
(***************************************************************************)
(* A model of instigator.go: a static site generator that turns a          *)
(* directory of dated markdown files into per-post pages, an index and a   *)
(* feed.  Strings are sequences of one-character strings; a path is the    *)
(* string "dir/base".                                                      *)
(***************************************************************************)
EXTENDS Integers, Sequences, FiniteSets, TLC

VARIABLES
    pc,         \* position of main: config, prepare, rename, list, posts, index, feed, done
    k,          \* loop index of the running for-range loop
    srcDir,     \* the source directory: base name of each *.md file -> its bytes
    outDir,     \* the output directory: file path -> bytes written
    prepFiles,  \* srcFiles of prepare()
    srcFiles,   \* srcFiles of main()
    posts,      \* posts of main(), sorted in place by writeIndex and writeFeed
    built,      \* history: posts as main's loop left it, before the first sort
    log,        \* the result of every I/O operation, oldest first (llog prints the failures)
    exitCode,   \* the process's exit code
    now,        \* the wall clock read by time.Now()
    config,     \* the package-level config: unset, ok, or ok with a SourceDir Glob rejects
    run,        \* number of the current invocation of the tool
    written,    \* history: the files written by the current invocation
    prevWritten,\* history: the files written by the previous invocation
    prevLog,    \* history: log of the previous invocation
    initNames,  \* history: the source file names before the first invocation
    dName,      \* argument of a direct parseDate call
    dRes,       \* its result
    tData,      \* file bytes given to the title scan of parseSourceFile
    tRes        \* the title it found

vars == <<pc, k, srcDir, outDir, prepFiles, srcFiles, posts, built, log, exitCode,
          now, config, run, written, prevWritten, prevLog, initNames, dName, dRes, tData, tRes>>

(***************************************************************************)
(* Bounds of the model.                                                    *)
(***************************************************************************)
MaxFiles == 2
MaxRuns == 2
MaxPosts == 3
MaxFrags == 3
MaxLines == 3

(***************************************************************************)
(* Strings.                                                                *)
(***************************************************************************)
Digits == <<"0", "1", "2", "3", "4", "5", "6", "7", "8", "9">>

\* Bytes in ascending order, as sort.Strings compares them.
ByteOrder == <<"-", ".", "/">> \o Digits \o <<"a", "d", "h", "i", "l", "m", "o", "s", "t", "x">>

Ord(c) == CHOOSE i \in 1..Len(ByteOrder) : ByteOrder[i] = c

IsDigit(c) == \E i \in 1..Len(Digits) : Digits[i] = c

DigitVal(c) == (CHOOSE i \in 1..Len(Digits) : Digits[i] = c) - 1

Range(s) == {s[i] : i \in 1..Len(s)}

Last(s) == s[Len(s)]

HasPrefix(s, p) == Len(s) >= Len(p) /\ SubSeq(s, 1, Len(p)) = p

HasSuffix(s, p) == Len(s) >= Len(p) /\ SubSeq(s, Len(s) - Len(p) + 1, Len(s)) = p

\* strings.TrimRight(s, cutset): drop every trailing byte that is in cutset.
RECURSIVE TrimRight(_, _)
TrimRight(s, cutset) ==
    IF Len(s) > 0 /\ Last(s) \in Range(cutset)
    THEN TrimRight(SubSeq(s, 1, Len(s) - 1), cutset)
    ELSE s

\* strings.TrimLeft(s, cutset): drop every leading byte that is in cutset.
RECURSIVE TrimLeft(_, _)
TrimLeft(s, cutset) ==
    IF Len(s) > 0 /\ Head(s) \in Range(cutset)
    THEN TrimLeft(Tail(s), cutset)
    ELSE s

\* strings.Split(s, "\n")
RECURSIVE Split(_)
Split(s) ==
    IF \E i \in 1..Len(s) : s[i] = "\n"
    THEN LET i == CHOOSE j \in 1..Len(s) : s[j] = "\n" /\ \A h \in 1..(j - 1) : s[h] # "\n"
         IN  <<SubSeq(s, 1, i - 1)>> \o Split(SubSeq(s, i + 1, Len(s)))
    ELSE <<s>>

\* strings.Join(lines, "\n")
RECURSIVE Join(_)
Join(lines) ==
    IF Len(lines) = 0 THEN <<>>
    ELSE IF Len(lines) = 1 THEN lines[1]
    ELSE lines[1] \o <<"\n">> \o Join(Tail(lines))

\* Position of the last occurrence of c in s, 0 if there is none.
LastIndex(s, c) ==
    IF \E i \in 1..Len(s) : s[i] = c
    THEN CHOOSE i \in 1..Len(s) : s[i] = c /\ \A j \in (i + 1)..Len(s) : s[j] # c
    ELSE 0

\* filepath.Base for the non-empty slash-separated paths of this program.
Base(path) == SubSeq(path, LastIndex(path, "/") + 1, Len(path))

\* filepath.Ext: the suffix beginning at the final dot of the last element.
Ext(path) ==
    LET b == Base(path)
        i == LastIndex(b, ".")
    IN  IF i = 0 THEN <<>> ELSE SubSeq(b, i, Len(b))

\* filepath.Join(dir, name)
PathJoin(dir, name) == dir \o <<"/">> \o name

\* a < b as Go compares strings
RECURSIVE StrLess(_, _)
StrLess(a, b) ==
    IF Len(b) = 0 THEN FALSE
    ELSE IF Len(a) = 0 THEN TRUE
    ELSE IF Head(a) = Head(b) THEN StrLess(Tail(a), Tail(b))
    ELSE Ord(Head(a)) < Ord(Head(b))

RECURSIVE SortedSeq(_)
SortedSeq(S) ==
    IF S = {} THEN <<>>
    ELSE LET m == CHOOSE x \in S : \A y \in S \ {x} : StrLess(x, y)
         IN  <<m>> \o SortedSeq(S \ {m})

SourceDir == <<"s">>
OutputDir == <<"o">>
ExtHtml == <<".", "h", "t", "m", "l">>

(***************************************************************************)
(* trimPath                                                                *)
(***************************************************************************)
\* Faulty variant of trimPath: a leading YYYY-MM-DD- is dropped with the extension.
trimPathSlug(path) ==
    LET fn == Base(path)
        ext == Ext(fn)
        t == TrimRight(fn, ext)
    IN  IF Len(t) > 11 /\ t[5] = "-" /\ t[8] = "-" /\ t[11] = "-"
        THEN SubSeq(t, 12, Len(t))
        ELSE t

trimPath(path) ==
    LET fn == Base(path)
        ext == Ext(fn)
    IN  TrimRight(fn, ext)

(***************************************************************************)
(* time.Time: a calendar day and the time elapsed within it.               *)
(***************************************************************************)
ZeroTime == [y |-> 1, m |-> 1, d |-> 1, t |-> 0]

After(a, b) ==
    \/ a.y > b.y
    \/ a.y = b.y /\ a.m > b.m
    \/ a.y = b.y /\ a.m = b.m /\ a.d > b.d
    \/ a.y = b.y /\ a.m = b.m /\ a.d = b.d /\ a.t > b.t

IsLeap(y) == y % 4 = 0 /\ (y % 100 # 0 \/ y % 400 = 0)

DaysIn(m, y) ==
    IF m = 2 THEN (IF IsLeap(y) THEN 29 ELSE 28)
    ELSE IF m \in {4, 6, 9, 11} THEN 30 ELSE 31

\* time.Parse("2006-01-02", ds): [ok, date]
timeParse(ds) ==
    LET shape == /\ Len(ds) = 10
                 /\ \A i \in {1, 2, 3, 4, 6, 7, 9, 10} : IsDigit(ds[i])
                 /\ ds[5] = "-" /\ ds[8] = "-"
    IN  IF ~shape THEN [ok |-> FALSE, date |-> ZeroTime]
        ELSE LET y == 1000 * DigitVal(ds[1]) + 100 * DigitVal(ds[2])
                      + 10 * DigitVal(ds[3]) + DigitVal(ds[4])
                 m == 10 * DigitVal(ds[6]) + DigitVal(ds[7])
                 d == 10 * DigitVal(ds[9]) + DigitVal(ds[10])
             IN  IF m \in 1..12 /\ d >= 1 /\ d <= DaysIn(m, y)
                 THEN [ok |-> TRUE, date |-> [y |-> y, m |-> m, d |-> d, t |-> 0]]
                 ELSE [ok |-> FALSE, date |-> ZeroTime]

\* Time.Format("2006-01-02")
DigitOf(n) == Digits[(n % 10) + 1]

FormatDate(t) ==
    <<DigitOf(t.y \div 1000), DigitOf(t.y \div 100), DigitOf(t.y \div 10), DigitOf(t.y), "-",
      DigitOf(t.m \div 10), DigitOf(t.m), "-",
      DigitOf(t.d \div 10), DigitOf(t.d)>>

(***************************************************************************)
(* parseDate                                                               *)
(***************************************************************************)
\* The ways (\d{1,4})-(\d{1,2})-(\d{1,2}) matches s beginning at position i,
\* as the lengths <<a, b, c>> of the three groups.
MatchesAt(s, i) ==
    {g \in (1..4) \X (1..2) \X (1..2) :
        /\ i + g[1] + g[2] + g[3] + 1 <= Len(s)
        /\ \A j \in i..(i + g[1] - 1) : IsDigit(s[j])
        /\ s[i + g[1]] = "-"
        /\ \A j \in (i + g[1] + 1)..(i + g[1] + g[2]) : IsDigit(s[j])
        /\ s[i + g[1] + g[2] + 1] = "-"
        /\ \A j \in (i + g[1] + g[2] + 2)..(i + g[1] + g[2] + g[3] + 1) : IsDigit(s[j])}

\* Faulty variant of FindString: the last group is matched lazily (\d{1,2}?).
FindStringLazy(s) ==
    IF \A i \in 1..Len(s) : MatchesAt(s, i) = {}
    THEN <<>>
    ELSE LET i == CHOOSE p \in 1..Len(s) :
                    MatchesAt(s, p) # {} /\ \A q \in 1..(p - 1) : MatchesAt(s, q) = {}
             M == MatchesAt(s, i)
             g == CHOOSE x \in M : \A z \in M :
                    \/ x[1] > z[1]
                    \/ x[1] = z[1] /\ x[2] > z[2]
                    \/ x[1] = z[1] /\ x[2] = z[2] /\ x[3] <= z[3]
         IN  SubSeq(s, i, i + g[1] + g[2] + g[3] + 1)

\* Regexp.FindString: the leftmost match, each group as long as it can be.
FindString(s) ==
    IF \A i \in 1..Len(s) : MatchesAt(s, i) = {}
    THEN <<>>
    ELSE LET i == CHOOSE p \in 1..Len(s) :
                    MatchesAt(s, p) # {} /\ \A q \in 1..(p - 1) : MatchesAt(s, q) = {}
             M == MatchesAt(s, i)
             g == CHOOSE x \in M : \A z \in M :
                    \/ x[1] > z[1]
                    \/ x[1] = z[1] /\ x[2] > z[2]
                    \/ x[1] = z[1] /\ x[2] = z[2] /\ x[3] >= z[3]
         IN  SubSeq(s, i, i + g[1] + g[2] + g[3] + 1)

\* parseDate(name) with time.Now() = clock: [date, err]
parseDate(name, clock) ==
    LET ds == FindString(name)
    IN  IF Len(ds) = 10
        THEN LET p == timeParse(ds)
             IN  IF p.ok THEN [date |-> p.date, err |-> FALSE]
                 ELSE [date |-> clock, err |-> TRUE]
        ELSE [date |-> clock, err |-> TRUE]

Tick(clock) == [clock EXCEPT !.t = @ + 1]

(***************************************************************************)
(* Post, Posts and sort.Sort                                               *)
(***************************************************************************)
Post(name, title, content, date) ==
    [Name |-> name, Title |-> title, Content |-> content, Date |-> date]

\* Post{}
ZeroPost == Post(<<>>, <<>>, <<>>, ZeroTime)

\* Faulty variant of Less: Before in place of After.
LessBefore(a, b) == After(b.Date, a.Date)

\* Posts.Less on the elements at i and j
Less(a, b) == After(a.Date, b.Date)

\* Posts.Swap
Swap(p, i, j) == [p EXCEPT ![i] = p[j], ![j] = p[i]]

\* sort.Sort on at most 12 elements is an insertion sort over Less and Swap.
RECURSIVE InsertDown(_, _)
InsertDown(p, j) ==
    IF j > 1 /\ Less(p[j], p[j - 1])
    THEN InsertDown(Swap(p, j, j - 1), j - 1)
    ELSE p

RECURSIVE InsertionSort(_, _)
InsertionSort(p, i) ==
    IF i > Len(p) THEN p ELSE InsertionSort(InsertDown(p, i), i + 1)

SortPosts(p) == InsertionSort(p, 2)

(***************************************************************************)
(* parseSourceFile, renderTemplate, writePost                              *)
(***************************************************************************)
\* Faulty variant of TitleOf: the loop lacks its break, so the last heading wins.
RECURSIVE TitleOfLast(_)
TitleOfLast(lines) ==
    IF Len(lines) = 0 THEN <<>>
    ELSE LET s == TrimLeft(Last(lines), <<" ">>)
         IN  IF HasPrefix(s, <<"#">>)
             THEN TrimLeft(TrimLeft(s, <<"#">>), <<" ">>)
             ELSE TitleOfLast(SubSeq(lines, 1, Len(lines) - 1))

\* The title loop of parseSourceFile over the lines still to scan.
RECURSIVE TitleOf(_)
TitleOf(lines) ==
    IF Len(lines) = 0 THEN <<>>
    ELSE LET s == TrimLeft(Head(lines), <<" ">>)
         IN  IF HasPrefix(s, <<"#">>)
             THEN TrimLeft(TrimLeft(s, <<"#">>), <<" ">>)
             ELSE TitleOf(Tail(lines))

\* blackfriday.MarkdownCommon: a deterministic function of its input; only
\* that it wraps the whole text is modelled.
MarkdownCommon(content) == <<"<md>">> \o content \o <<"</md>">>

\* parseSourceFile(srcFilePath) when time.Now() = clock and ioutil.ReadFile
\* yields data or fails: [post, err, dateErr]
parseSourceFile(srcFilePath, clock, data, readOk) ==
    LET name == trimPath(srcFilePath)
        r == parseDate(name, clock)
        lines == Split(data)
    IN  IF ~readOk
        THEN [post |-> ZeroPost, err |-> TRUE, dateErr |-> r.err]
        ELSE [post |-> Post(name, TitleOf(lines), MarkdownCommon(Join(lines)), r.date),
              err |-> FALSE, dateErr |-> r.err]

\* renderTemplate's result when the template is read, parsed and executed.
renderTemplate(tmpl, tmplData) == [tmpl |-> tmpl, data |-> tmplData]

\* writePost(mdPath) when the environment makes the step named by res fail
\* ("read", "render", "write") or none ("ok").
writePost(mdPath, clock, data, res) ==
    LET p == parseSourceFile(mdPath, clock, data, res # "read")
        outFilePath == PathJoin(OutputDir, p.post.Name \o ExtHtml)
    IN  [post |-> IF res = "ok" THEN p.post ELSE ZeroPost,
         err |-> res,
         dateErr |-> p.dateErr,
         wrote |-> res = "ok",
         path |-> outFilePath,
         html |-> renderTemplate("main.html", p.post)]

\* Faulty variant of mainStore: the post goes to the first slot still empty.
mainStoreNextFree(p, i, r) ==
    IF r.err = "ok"
    THEN [p EXCEPT ![CHOOSE j \in 1..Len(p) :
                        p[j] = ZeroPost /\ \A h \in 1..(j - 1) : p[h] # ZeroPost] = r.post]
    ELSE p

\* main's loop body after writePost(srcFile) returned r for index i.
mainStore(p, i, r) == IF r.err = "ok" THEN [p EXCEPT ![i] = r.post] ELSE p

(***************************************************************************)
(* The environment.                                                        *)
(***************************************************************************)
\* filepath.Glob(config.SourceDir + "/*.md"): the matching paths, sorted.
Glob(dir) == [i \in 1..Cardinality(DOMAIN dir) |->
                PathJoin(SourceDir, SortedSeq(DOMAIN dir)[i])]

\* os.Rename(old, new) succeeding: new replaces whatever had that name.
Rename(dir, old, new) ==
    [n \in (DOMAIN dir \ {old}) \cup {new} |-> IF n = new THEN dir[old] ELSE dir[n]]

\* ioutil.WriteFile succeeding.  A failing write is taken to fail before the
\* file is created or truncated, and leaves the directory as it was.
WriteFile(dir, path, bytes) ==
    [f \in DOMAIN dir \cup {path} |-> IF f = path THEN bytes ELSE dir[f]]

Event(ev, i, res, from, to) == [ev |-> ev, i |-> i, res |-> res, from |-> from, to |-> to]

\* A later invocation meets the environment of the one before it: an
\* operation that ran then, with the same index, has the same result now.
Allowed(ev, i, res) ==
    LET P == {prevLog[j].res : j \in {h \in 1..Len(prevLog) :
                                        prevLog[h].ev = ev /\ prevLog[h].i = i}}
    IN  P = {} \/ res \in P

(***************************************************************************)
(* Inputs.                                                                 *)
(***************************************************************************)
ExtMd == <<".", "m", "d">>
Date20230101 == <<"2", "0", "2", "3", "-", "0", "1", "-", "0", "1">>
Date20220615 == <<"2", "0", "2", "2", "-", "0", "6", "-", "1", "5">>
Date20210305 == <<"2", "0", "2", "1", "-", "0", "3", "-", "0", "5">>
Date20200229 == <<"2", "0", "2", "0", "-", "0", "2", "-", "2", "9">>
Date20210230 == <<"2", "0", "2", "1", "-", "0", "2", "-", "3", "0">>

NameHi == Date20230101 \o <<"-", "h", "i">> \o ExtMd
HiHtml == PathJoin(OutputDir, <<"h", "i">> \o ExtHtml)
DatedHiHtml == PathJoin(OutputDir, Date20230101 \o <<"-", "h", "i">> \o ExtHtml)

\* Base names the source directory may hold.
NamePool ==
    { NameHi,
      Date20230101 \o <<"-", "a">> \o ExtMd,
      Date20230101 \o <<"-", "a", "d">> \o ExtMd,
      Date20220615 \o <<"-", "x">> \o ExtMd,
      <<"a">> \o ExtMd,
      <<"a", "d">> \o ExtMd }

DataHi == <<"#", " ", "H", "i", "\n", "B", "o", "d", "y", " ", "t", "e", "x", "t">>
DataPlain == <<"B", "o", "d", "y", " ", "t", "e", "x", "t">>
Contents == {DataHi, DataPlain}

StartTime == [y |-> 2026, m |-> 11, d |-> 5, t |-> 1]

IndexHtml == PathJoin(OutputDir, <<"i", "n", "d", "e", "x">> \o ExtHtml)
FeedHtml == PathJoin(OutputDir, <<"f", "e", "e", "d">> \o ExtHtml)

(***************************************************************************)
(* main, one step per I/O operation or loop iteration.                     *)
(***************************************************************************)
pureVars == <<dName, dRes, tData, tRes>>
histVars == <<run, prevWritten, prevLog, initNames>>

\* readConfig and main's check of its error.
ReadConfig ==
    /\ pc = "config"
    /\ \E res \in {"ok", "badpattern", "fail"} :
        /\ Allowed("config", 0, res)
        /\ log' = Append(log, Event("config", 0, res, <<>>, <<>>))
        /\ IF res = "fail"
           THEN pc' = "done" /\ exitCode' = 1 /\ config' = config
           ELSE pc' = "prepare" /\ exitCode' = exitCode /\ config' = res
    /\ UNCHANGED <<k, srcDir, outDir, prepFiles, srcFiles, posts, built, now, written>>
    /\ UNCHANGED <<pureVars, histVars>>

\* prepare: listSrcFiles and the check of its error.
PrepareList ==
    /\ pc = "prepare"
    /\ IF config = "badpattern"
       THEN /\ pc' = "done" /\ exitCode' = 1
            /\ log' = Append(log, Event("glob", 1, "fail", <<>>, <<>>))
            /\ UNCHANGED <<prepFiles, k>>
       ELSE /\ prepFiles' = Glob(srcDir)
            /\ k' = 1
            /\ pc' = IF Len(prepFiles') = 0 THEN "list" ELSE "rename"
            /\ UNCHANGED <<log, exitCode>>
    /\ UNCHANGED <<srcDir, outDir, srcFiles, posts, built, now, config, written>>
    /\ UNCHANGED <<pureVars, histVars>>

\* Faulty variant of prepareOne: the error of parseDate is not consulted.
prepareOneAlways(srcFile, clock) ==
    LET name == trimPath(srcFile)
        r == parseDate(name, clock)
        dateStr == FormatDate(r.date)
    IN  [rename |-> TRUE,
         newname |-> PathJoin(SourceDir, dateStr \o <<"-">> \o name \o Ext(srcFile))]

\* The body of prepare's loop up to os.Rename: whether srcFile is renamed,
\* and to what.
prepareOne(srcFile, clock) ==
    LET name == trimPath(srcFile)
        r == parseDate(name, clock)
        dateStr == FormatDate(r.date)
    IN  [rename |-> r.err,
         newname |-> PathJoin(SourceDir, dateStr \o <<"-">> \o name \o Ext(srcFile))]

\* prepare: one iteration of the loop over srcFiles.
PrepareStep ==
    /\ pc = "rename"
    /\ \E p \in {prepareOne(prepFiles[k], now)} :
           IF p.rename
           THEN \E res \in {"ok", "fail"} :
                   /\ Allowed("rename", k, res)
                   /\ srcDir' = IF res = "ok"
                                THEN Rename(srcDir, Base(prepFiles[k]), Base(p.newname))
                                ELSE srcDir
                   /\ log' = Append(log, Event("rename", k, res, prepFiles[k], p.newname))
                   /\ now' = Tick(now)
           ELSE UNCHANGED <<srcDir, log, now>>
    /\ k' = k + 1
    /\ pc' = IF k = Len(prepFiles) THEN "list" ELSE "rename"
    /\ UNCHANGED <<outDir, prepFiles, srcFiles, posts, built, exitCode, config, written>>
    /\ UNCHANGED <<pureVars, histVars>>

\* main: listSrcFiles, the check of its error, and make(Posts, len(srcFiles)).
MainList ==
    /\ pc = "list"
    /\ IF config = "badpattern"
       THEN /\ pc' = "done" /\ exitCode' = 1
            /\ log' = Append(log, Event("glob", 2, "fail", <<>>, <<>>))
            /\ UNCHANGED <<srcFiles, posts, k>>
       ELSE /\ srcFiles' = Glob(srcDir)
            /\ posts' = [i \in 1..Len(srcFiles') |-> ZeroPost]
            /\ k' = 1
            /\ pc' = IF Len(srcFiles') = 0 THEN "index" ELSE "posts"
            /\ UNCHANGED <<log, exitCode>>
    /\ UNCHANGED <<srcDir, outDir, prepFiles, built, now, config, written>>
    /\ UNCHANGED <<pureVars, histVars>>

\* Faulty variant of WritePostStep: a failed post ends the run with exit code 1.
WritePostStepAbort ==
    /\ pc = "posts"
    /\ \E res \in {"ok", "read", "render", "write"} :
        /\ Allowed("post", k, res)
        /\ \E r \in {writePost(srcFiles[k], now, srcDir[Base(srcFiles[k])], res)} :
               /\ posts' = mainStore(posts, k, r)
               /\ outDir' = IF r.wrote THEN WriteFile(outDir, r.path, r.html) ELSE outDir
               /\ written' = IF r.wrote THEN WriteFile(written, r.path, r.html) ELSE written
               /\ log' = Append(log, Event("post", k, r.err, srcFiles[k],
                                           IF r.wrote THEN r.path ELSE <<>>))
               /\ now' = IF r.dateErr THEN Tick(now) ELSE now
               /\ exitCode' = IF r.err = "ok" THEN exitCode ELSE 1
               /\ pc' = IF r.err # "ok" THEN "done"
                        ELSE IF k = Len(srcFiles) THEN "index" ELSE "posts"
    /\ k' = k + 1
    /\ UNCHANGED <<srcDir, prepFiles, srcFiles, built, config>>
    /\ UNCHANGED <<pureVars, histVars>>

\* main: one iteration of the loop over srcFiles.
WritePostStep ==
    /\ pc = "posts"
    /\ \E res \in {"ok", "read", "render", "write"} :
        /\ Allowed("post", k, res)
        /\ \E r \in {writePost(srcFiles[k], now, srcDir[Base(srcFiles[k])], res)} :
               /\ posts' = mainStore(posts, k, r)
               /\ outDir' = IF r.wrote THEN WriteFile(outDir, r.path, r.html) ELSE outDir
               /\ written' = IF r.wrote THEN WriteFile(written, r.path, r.html) ELSE written
               /\ log' = Append(IF r.dateErr
                                THEN Append(log, Event("date", k, "fail", srcFiles[k], <<>>))
                                ELSE log,
                                Event("post", k, r.err, srcFiles[k],
                                      IF r.wrote THEN r.path ELSE <<>>))
               /\ now' = IF r.dateErr THEN Tick(now) ELSE now
    /\ k' = k + 1
    /\ pc' = IF k = Len(srcFiles) THEN "index" ELSE "posts"
    /\ UNCHANGED <<srcDir, prepFiles, srcFiles, built, exitCode, config>>
    /\ UNCHANGED <<pureVars, histVars>>

\* main: writeIndex(posts) and the logging of its result.
WriteIndex ==
    /\ pc = "index"
    /\ built' = posts
    /\ posts' = SortPosts(posts)
    /\ \E res \in {"ok", "recent", "main", "write"} :
        /\ Allowed("index", 0, res)
        /\ LET recent == [Title |-> "my page",
                          Content |-> renderTemplate("recent.html", posts')]
               out == renderTemplate("main.html", recent)
           IN  /\ outDir' = IF res = "ok" THEN WriteFile(outDir, IndexHtml, out) ELSE outDir
               /\ written' = IF res = "ok" THEN WriteFile(written, IndexHtml, out) ELSE written
        /\ log' = Append(log, Event("index", 0, res, <<>>, <<>>))
    /\ pc' = "feed"
    /\ UNCHANGED <<k, srcDir, prepFiles, srcFiles, exitCode, now, config>>
    /\ UNCHANGED <<pureVars, histVars>>

\* main: writeFeed(posts), the logging of its result, and the return.
WriteFeed ==
    /\ pc = "feed"
    /\ posts' = SortPosts(posts)
    /\ \E res \in {"ok", "feed", "write"} :
        /\ Allowed("feed", 0, res)
        /\ LET out == renderTemplate("feed.html", posts')
           IN  /\ outDir' = IF res = "ok" THEN WriteFile(outDir, FeedHtml, out) ELSE outDir
               /\ written' = IF res = "ok" THEN WriteFile(written, FeedHtml, out) ELSE written
        /\ log' = Append(log, Event("feed", 0, res, <<>>, <<>>))
    /\ pc' = "done"
    /\ UNCHANGED <<k, srcDir, prepFiles, srcFiles, built, exitCode, now, config>>
    /\ UNCHANGED <<pureVars, histVars>>

\* The tool is invoked again on the directories the last invocation left.
Restart ==
    /\ pc = "done"
    /\ run < MaxRuns
    /\ run' = run + 1
    /\ pc' = "config"
    /\ k' = 1
    /\ prepFiles' = <<>> /\ srcFiles' = <<>> /\ posts' = <<>> /\ built' = <<>>
    /\ prevLog' = log /\ log' = <<>>
    /\ prevWritten' = written /\ written' = <<>>
    /\ exitCode' = 0
    /\ config' = "unset"
    /\ now' = Tick(now)
    /\ UNCHANGED <<srcDir, outDir, initNames>>
    /\ UNCHANGED pureVars

\* Everything but the directories, at process start.
InitProcess ==
    /\ k = 1
    /\ prepFiles = <<>> /\ srcFiles = <<>> /\ posts = <<>> /\ built = <<>>
    /\ log = <<>> /\ prevLog = <<>>
    /\ written = <<>> /\ prevWritten = <<>>
    /\ exitCode = 0
    /\ config = "unset"
    /\ now = StartTime
    /\ run = 1

InitPure ==
    /\ dName = <<>> /\ dRes = [date |-> ZeroTime, err |-> FALSE]
    /\ tData = <<>> /\ tRes = <<>>

Init ==
    /\ pc = "config"
    /\ \E S \in SUBSET NamePool : \E data \in Contents :
        /\ Cardinality(S) <= MaxFiles
        /\ srcDir = [n \in S |-> data]
        /\ initNames = S
    /\ outDir = <<>>
    /\ InitProcess
    /\ InitPure

Next ==
    \/ ReadConfig
    \/ PrepareList
    \/ PrepareStep
    \/ MainList
    \/ WritePostStep
    \/ WriteIndex
    \/ WriteFeed

Spec == Init /\ [][Next]_vars

NextTwice == Next \/ Restart

SpecTwice == Init /\ [][NextTwice]_vars

(***************************************************************************)
(* parseDate on its own: names built from at most MaxFrags fragments.      *)
(***************************************************************************)
Frags ==
    { Date20210305, Date20200229, Date20210230,
      <<"1", "-", "2", "-", "3", "-">>, <<"x">>, <<"-">>, <<"7">> }

RECURSIVE Concats(_)
Concats(n) ==
    IF n = 0 THEN {<<>>}
    ELSE LET S == Concats(n - 1) IN S \cup {a \o f : a \in S, f \in Frags}

CallParseDate ==
    /\ pc = "parseDate"
    /\ dRes' = parseDate(dName, now)
    /\ now' = IF dRes'.err THEN Tick(now) ELSE now
    /\ pc' = "done"
    /\ UNCHANGED <<k, srcDir, outDir, prepFiles, srcFiles, posts, built, log, exitCode,
                   config, written, dName, tData, tRes>>
    /\ UNCHANGED histVars

InitDate ==
    /\ pc = "parseDate"
    /\ srcDir = <<>> /\ outDir = <<>> /\ initNames = {}
    /\ InitProcess
    /\ dName \in Concats(MaxFrags)
    /\ dRes = [date |-> ZeroTime, err |-> FALSE]
    /\ tData = <<>> /\ tRes = <<>>

NextDate == CallParseDate

SpecDate == InitDate /\ [][NextDate]_vars

(***************************************************************************)
(* The title scan of parseSourceFile on its own: files of at most MaxLines *)
(* lines.                                                                  *)
(***************************************************************************)
MyTitle == <<"M", "y", " ", "T", "i", "t", "l", "e">>
Other == <<"O", "t", "h", "e", "r">>

LinePool ==
    { <<"#", " ">> \o MyTitle,
      <<" ", " ", "#", " ">> \o MyTitle,
      <<"#", "#", " ">> \o Other,
      <<" ", "#">> \o Other,
      DataPlain,
      <<>> }

RECURSIVE LineSeqs(_)
LineSeqs(n) ==
    IF n = 0 THEN {<<>>}
    ELSE LET S == LineSeqs(n - 1) IN S \cup {Append(ls, l) : ls \in S, l \in LinePool}

ScanTitle ==
    /\ pc = "title"
    /\ tRes' = TitleOf(Split(tData))
    /\ pc' = "done"
    /\ UNCHANGED <<k, srcDir, outDir, prepFiles, srcFiles, posts, built, log, exitCode,
                   now, config, written, dName, dRes, tData>>
    /\ UNCHANGED histVars

InitTitle ==
    /\ pc = "title"
    /\ srcDir = <<>> /\ outDir = <<>> /\ initNames = {}
    /\ InitProcess
    /\ dName = <<>> /\ dRes = [date |-> ZeroTime, err |-> FALSE]
    /\ tData \in {Join(ls) : ls \in LineSeqs(MaxLines)}
    /\ tRes = <<>>

NextTitle == ScanTitle

SpecTitle == InitTitle /\ [][NextTitle]_vars

(***************************************************************************)
(* writeIndex and writeFeed on collections of at most MaxPosts posts.      *)
(***************************************************************************)
Day(y, m, d) == [y |-> y, m |-> m, d |-> d, t |-> 0]

PostPool ==
    { ZeroPost,
      Post(<<"a">>, <<>>, <<>>, Day(2020, 1, 1)),
      Post(<<"b">>, <<>>, <<>>, Day(2022, 6, 15)),
      Post(<<"c">>, <<>>, <<>>, Day(2021, 3, 3)),
      Post(<<"d">>, <<>>, <<>>, Day(2022, 6, 15)),
      Post(<<"e">>, <<>>, <<>>, [y |-> 2022, m |-> 6, d |-> 15, t |-> 7]) }

RECURSIVE PostSeqs(_)
PostSeqs(n) ==
    IF n = 0 THEN {<<>>}
    ELSE LET S == PostSeqs(n - 1) IN S \cup {Append(ps, q) : ps \in S, q \in PostPool}

InitSort ==
    /\ pc = "index"
    /\ srcDir = <<>> /\ outDir = <<>> /\ initNames = {}
    /\ k = 1
    /\ prepFiles = <<>> /\ built = <<>>
    /\ posts \in PostSeqs(MaxPosts)
    /\ srcFiles = [i \in 1..Len(posts) |-> PathJoin(SourceDir, posts[i].Name \o ExtMd)]
    /\ log = <<>> /\ prevLog = <<>>
    /\ written = <<>> /\ prevWritten = <<>>
    /\ exitCode = 0
    /\ config = "ok"
    /\ now = StartTime
    /\ run = 1
    /\ InitPure

NextSort == WriteIndex \/ WriteFeed

SpecSort == InitSort /\ [][NextSort]_vars

(***************************************************************************)
(* Vocabulary of the properties, defined apart from the code's operators.  *)
(***************************************************************************)
MonthDays == <<31, 28, 31, 30, 31, 30, 31, 31, 30, 31, 30, 31>>

RECURSIVE Num(_)
Num(ds) == IF Len(ds) = 0 THEN 0 ELSE 10 * Num(SubSeq(ds, 1, Len(ds) - 1)) + DigitVal(Last(ds))

\* ds is a 10-character YYYY-MM-DD naming a day of the calendar.
IsCalendarDate(ds) ==
    /\ Len(ds) = 10
    /\ \A i \in {1, 2, 3, 4, 6, 7, 9, 10} : ds[i] \in Range(Digits)
    /\ ds[5] = "-" /\ ds[8] = "-"
    /\ Num(SubSeq(ds, 6, 7)) \in 1..12
    /\ Num(SubSeq(ds, 9, 10)) >= 1
    /\ Num(SubSeq(ds, 9, 10)) <=
         IF Num(SubSeq(ds, 6, 7)) = 2 /\ Num(SubSeq(ds, 1, 4)) % 4 = 0
            /\ (Num(SubSeq(ds, 1, 4)) % 100 # 0 \/ Num(SubSeq(ds, 1, 4)) % 400 = 0)
         THEN 29
         ELSE MonthDays[Num(SubSeq(ds, 6, 7))]

DateValue(ds) ==
    [y |-> Num(SubSeq(ds, 1, 4)), m |-> Num(SubSeq(ds, 6, 7)),
     d |-> Num(SubSeq(ds, 9, 10)), t |-> 0]

\* Positions of name at which a valid 10-character date begins.
DatePositions(name) ==
    {i \in 1..Len(name) : i + 9 <= Len(name) /\ IsCalendarDate(SubSeq(name, i, i + 9))}

\* The base name begins with a valid date.
DatePrefixed(base) == 1 \in DatePositions(base)

\* The base name is YYYY-MM-DD-x.md for a valid date and some x.
DatedMd(base) ==
    /\ DatePrefixed(base)
    /\ Len(base) >= 14
    /\ base[11] = "-"
    /\ SubSeq(base, Len(base) - 2, Len(base)) = ExtMd

LogEvents(ev) == {log[j] : j \in {h \in 1..Len(log) : log[h].ev = ev}}

PostEvent(i) == CHOOSE e \in LogEvents("post") : e.i = i

(***************************************************************************)
(* C2                                                                      *)
(***************************************************************************)
\* C2 as stated: whenever the name contains a valid 10-character date
\* anywhere, parseDate returns a date found in the name, without error.
C2_AnyDateSubstringIsParsed ==
    (pc = "done" /\ DatePositions(dName) # {}) =>
        /\ ~dRes.err
        /\ \E i \in DatePositions(dName) : dRes.date = DateValue(SubSeq(dName, i, i + 9))

\* C2 amended: a valid 10-character date in the name is returned, without
\* error, when no match of the digits-dash-digits-dash-digits pattern begins
\* before it.
C2_FirstMatchDateIsParsed ==
    pc = "done" =>
        \A i \in DatePositions(dName) :
            (\A j \in 1..(i - 1) : MatchesAt(dName, j) = {}) =>
                /\ ~dRes.err
                /\ dRes.date = DateValue(SubSeq(dName, i, i + 9))

\* A date found after other text, and followed by a digit.
C2_Witness ==
    /\ pc = "done"
    /\ ~dRes.err
    /\ \E i \in DatePositions(dName) :
        /\ i > 1
        /\ \A j \in 1..(i - 1) : MatchesAt(dName, j) = {}
        /\ i + 10 <= Len(dName)
        /\ IsDigit(dName[i + 10])
        /\ dRes.date = DateValue(SubSeq(dName, i, i + 9))

(***************************************************************************)
(* C8                                                                      *)
(***************************************************************************)
Spaces(n) == [i \in 1..n |-> " "]

IsMyTitleLine(l) == \E n \in 0..Len(l) : l = Spaces(n) \o <<"#", " ">> \o MyTitle

IsHeadingLine(l) == \E n \in 0..Len(l) : n < Len(l) /\ SubSeq(l, 1, n) = Spaces(n) /\ l[n + 1] = "#"

\* C8 as stated: an input with a `# My Title` line anywhere has the title
\* `My Title`.
C8_TitleLineAnywhere ==
    (pc = "done" /\ \E i \in 1..Len(Split(tData)) : IsMyTitleLine(Split(tData)[i])) =>
        tRes = MyTitle

\* C8 amended: the title is `My Title` when the `# My Title` line is the
\* first line of the input that begins, after leading spaces, with `#`.
C8_FirstHeadingIsTitle ==
    pc = "done" =>
        \A i \in 1..Len(Split(tData)) :
            ( /\ IsMyTitleLine(Split(tData)[i])
              /\ \A j \in 1..(i - 1) : ~IsHeadingLine(Split(tData)[j]) ) =>
                tRes = MyTitle

\* The title line is indented, follows a line of text and precedes another heading.
C8_Witness ==
    /\ pc = "done"
    /\ tRes = MyTitle
    /\ Len(Split(tData)) = 3
    /\ ~IsHeadingLine(Split(tData)[1])
    /\ IsMyTitleLine(Split(tData)[2])
    /\ Head(Split(tData)[2]) = " "
    /\ IsHeadingLine(Split(tData)[3])
    /\ ~IsMyTitleLine(Split(tData)[3])

(***************************************************************************)
(* C4                                                                      *)
(***************************************************************************)
Count(p, x) == Cardinality({i \in 1..Len(p) : p[i] = x})

IsPermutation(p, q) ==
    /\ Len(p) = Len(q)
    /\ \A x \in Range(p) \cup Range(q) : Count(p, x) = Count(q, x)

\* C4: what writeIndex and writeFeed hand to their templates is ordered by
\* date, latest first, and is a permutation of the collection main built.
C4_SortedDescending ==
    pc \in {"feed", "done"} =>
        /\ \A i \in 1..Len(posts) : \A j \in (i + 1)..Len(posts) :
                ~After(posts[j].Date, posts[i].Date)
        /\ IsPermutation(posts, built)

\* Three posts, out of order as built, with a failed post's slot and a tie.
C4_Witness ==
    /\ pc = "done"
    /\ Len(posts) = 3
    /\ posts # built
    /\ built[1] = ZeroPost
    /\ built[2] # built[3]
    /\ built[2].Date = built[3].Date

(***************************************************************************)
(* C1                                                                      *)
(***************************************************************************)
AllSucceeded ==
    /\ pc = "done" /\ exitCode = 0
    /\ \A e \in LogEvents("post") \cup LogEvents("index") \cup LogEvents("feed") : e.res = "ok"

\* C1: when every writePost succeeds (and the index and the feed are written),
\* the output directory holds one distinct per-post file for each of the N
\* listed source files, plus index.html and feed.html.
C1_OneOutputPerSource ==
    AllSucceeded =>
        /\ {IndexHtml, FeedHtml} \subseteq DOMAIN outDir
        /\ Cardinality({e.to : e \in LogEvents("post")}) = Len(srcFiles)
        /\ Cardinality(DOMAIN outDir) = Len(srcFiles) + 2

(***************************************************************************)
(* C3                                                                      *)
(***************************************************************************)
\* The base name with its extension removed as a suffix.
WithoutExt(base) == SubSeq(base, 1, Len(base) - Len(Ext(base)))

\* C3: every rename prepare attempts is of a file whose name holds no
\* parseable date, and its target is SourceDir/{today}-{base name without
\* extension}{extension}.
C3_RenameKeepsBaseName ==
    \A e \in LogEvents("rename") :
        /\ ~DatePrefixed(Base(e.from))
        /\ e.to = PathJoin(SourceDir, FormatDate(StartTime) \o <<"-">>
                                       \o WithoutExt(Base(e.from)) \o Ext(e.from))

(***************************************************************************)
(* C10                                                                     *)
(***************************************************************************)
\* C10: once prepare has returned, the source directory holds as many *.md
\* files as before it ran.
C10_PrepareLosesNoFile ==
    (run = 1 /\ pc \in {"list", "posts", "index", "feed"}) =>
        Cardinality(DOMAIN srcDir) = Cardinality(initNames)

(***************************************************************************)
(* C5                                                                      *)
(***************************************************************************)
IsStage(e) == e.ev \in {"post", "index", "feed"}

Stages == SelectSeq(log, IsStage)

\* C5: the exit code is 1 exactly when config loading or a listing failed;
\* otherwise it is 0 and every source file was attempted in listing order,
\* then the index, then the feed, whatever failed on the way.
C5_ExitCodeAndProgress ==
    pc = "done" =>
        /\ exitCode \in {0, 1}
        /\ exitCode = 1 <=> \E e \in LogEvents("config") \cup LogEvents("glob") : e.res = "fail"
        /\ exitCode = 0 =>
            /\ srcFiles = Glob(srcDir)
            /\ Len(Stages) = Len(srcFiles) + 2
            /\ \A i \in 1..Len(srcFiles) :
                  Stages[i].ev = "post" /\ Stages[i].i = i /\ Stages[i].from = srcFiles[i]
            /\ Stages[Len(srcFiles) + 1].ev = "index"
            /\ Stages[Len(srcFiles) + 2].ev = "feed"

\* A run in which a rename, a post, the index and the feed all failed.
C5_Witness ==
    /\ pc = "done"
    /\ exitCode = 0
    /\ Len(srcFiles) = 2
    /\ \E e \in LogEvents("rename") : e.res = "fail"
    /\ \E e \in LogEvents("post") : e.res # "ok"
    /\ \E e \in LogEvents("index") : e.res # "ok"
    /\ \E e \in LogEvents("feed") : e.res # "ok"

(***************************************************************************)
(* C9                                                                      *)
(***************************************************************************)
\* p is what parseSourceFile makes of source file i.
IsPostOf(i, p) ==
    /\ p.Name = trimPath(srcFiles[i])
    /\ p.Title = TitleOf(Split(srcDir[Base(srcFiles[i])]))
    /\ p.Content = MarkdownCommon(srcDir[Base(srcFiles[i])])
    /\ DatePrefixed(Base(srcFiles[i])) => p.Date = DateValue(SubSeq(Base(srcFiles[i]), 1, 10))

\* C9 as stated: before sorting there is a slot per listed file; slot i holds
\* the Post of file i whenever the file was parsed, and is zero only when
\* parsing failed.
C9_SlotHoldsParsedPost ==
    pc = "index" =>
        /\ Len(posts) = Len(srcFiles)
        /\ \A i \in 1..Len(srcFiles) :
            /\ PostEvent(i).res # "read" => IsPostOf(i, posts[i])
            /\ posts[i] = ZeroPost => PostEvent(i).res = "read"

\* C9 amended: slot i holds the Post of file i when writePost succeeded as a
\* whole, and the zero Post when parsing, rendering or writing failed.
C9_SlotHoldsWrittenPost ==
    pc = "index" =>
        /\ Len(posts) = Len(srcFiles)
        /\ \A i \in 1..Len(srcFiles) :
            /\ PostEvent(i).res = "ok" => IsPostOf(i, posts[i])
            /\ PostEvent(i).res # "ok" => posts[i] = ZeroPost

\* The first file was parsed but not rendered, the second was written.
C9_Witness ==
    /\ pc = "index"
    /\ Len(srcFiles) = 2
    /\ PostEvent(1).res = "render" /\ posts[1] = ZeroPost
    /\ PostEvent(2).res = "ok" /\ IsPostOf(2, posts[2])

(***************************************************************************)
(* C7                                                                      *)
(***************************************************************************)
\* C7 as stated: a written post whose source is YYYY-MM-DD-x.md is the
\* output file x.html.
C7_OutputDropsDatePrefix ==
    \A e \in LogEvents("post") :
        (e.res = "ok" /\ DatedMd(Base(e.from))) =>
            /\ e.to \in DOMAIN outDir
            /\ e.to = PathJoin(OutputDir,
                               SubSeq(Base(e.from), 12, Len(Base(e.from)) - 3) \o ExtHtml)

\* C7 amended: a written post whose source is YYYY-MM-DD-x.md is an output
\* file whose name begins with the same YYYY-MM-DD- and ends in .html; for
\* 2023-01-01-hi.md it is 2023-01-01-hi.html.
C7_OutputKeepsDatePrefix ==
    \A e \in LogEvents("post") :
        (e.res = "ok" /\ DatedMd(Base(e.from))) =>
            /\ e.to \in DOMAIN outDir
            /\ HasPrefix(e.to, PathJoin(OutputDir, SubSeq(Base(e.from), 1, 11)))
            /\ HasSuffix(e.to, ExtHtml)
            /\ Base(e.from) = NameHi => e.to = DatedHiHtml

\* 2023-01-01-hi.md was written.
C7_Witness ==
    /\ \E e \in LogEvents("post") :
          e.res = "ok" /\ e.from = PathJoin(SourceDir, NameHi) /\ e.to = DatedHiHtml
    /\ DatedHiHtml \in DOMAIN outDir
    /\ HiHtml \notin DOMAIN outDir

(***************************************************************************)
(* C6                                                                      *)
(***************************************************************************)
\* C6: when every source file name is date-prefixed, a second invocation in
\* the same environment leaves the source names as they were and writes the
\* same files with the same bytes as the one before it.
C6_SecondRunIdentical ==
    (run >= 2 /\ pc = "done" /\ \A n \in initNames : DatePrefixed(n)) =>
        /\ DOMAIN srcDir = initNames
        /\ written = prevWritten

\* Two dated sources, both runs wrote the posts, the index and the feed.
C6_Witness ==
    /\ run = 2 /\ pc = "done" /\ exitCode = 0
    /\ Cardinality(initNames) = 2
    /\ \A n \in initNames : DatePrefixed(n)
    /\ Cardinality(DOMAIN written) = 4
    /\ written = prevWritten

====
